---- MODULE Spec2Model ----
(***************************************************************************)
(* Model of src/utils/math.ts: the cost/value curve functions and the      *)
(* Pareto-frontier optimizer `optimize`.                                   *)
(*                                                                         *)
(* Numbers.  The program computes with IEEE doubles.  The model computes   *)
(* the same quantities exactly, as integers in fixed units:                *)
(*   - a difficulty is the rational  d / DifficultyDen  and is carried as  *)
(*     its numerator d;                                                    *)
(*   - zhenyuan values are integers already (Math.floor);                  *)
(*   - a time is counted in units of 1/(DifficultyDen*100*890*speed) hour, *)
(*     the common denominator of every term of getStepCost, and is held as *)
(*     a two-limb number <<hi, lo>> = hi*BigBase + lo because it exceeds   *)
(*     the 32-bit integers of the model checker.                           *)
(* Sums, comparisons and floors are those of the program; the rounding of  *)
(* double arithmetic is not modelled.                                      *)
(*                                                                         *)
(* optimize is one synchronous call.  Its steps are the actions: flatten   *)
(* and precompute, one action per iteration of the merge loop, the target  *)
(* selection, the formatting of the result.  settings.targetType and       *)
(* settings.targetValue are not read before the selection, so they are     *)
(* drawn there; arts, speed and reduction are drawn in Init.  Art ids are  *)
(* distinct.                                                               *)
(***************************************************************************)
EXTENDS Integers, Sequences, FiniteSets, TLC

\* ------------------------------------------------------------------ bounds
MaxCount   == 2         \* largest replica count of an art
MaxSpeed   == 2         \* largest cultivation speed
MaxTargets == 2         \* target values are taken around this many frontier
                        \* states at either end of the final frontier

\* ------------------------------------------------------------------- units
DifficultyDen == 2 * 2  \* difficulties are multiples of 1/DifficultyDen
Difficulties  == {1, 4, 8}      \* numerators: difficulty 0.25, 1 and 2
Reductions    == {0, 50}        \* breakthrough reduction percents

\* --------------------------------------------------- two-limb exact numbers
BigBase == 10000 * 10000

BigNorm(hi, lo) == <<hi + (lo \div BigBase), lo % BigBase>>

BigZero == <<0, 0>>

BigAdd(a, b) == BigNorm(a[1] + b[1], a[2] + b[2])

BigLess(a, b) == \/ a[1] < b[1]
                 \/ a[1] = b[1] /\ a[2] < b[2]

BigLeq(a, b) == ~BigLess(b, a)

\* x * m for 0 <= x < 2^31 and 0 <= m < 20000, without leaving 32 bits
BigMul(x, m) ==
    LET xh == x \div 10000
        xl == x % 10000
        p  == xh * m
    IN  BigNorm(p \div 10000, (p % 10000) * 10000 + xl * m)

\* ------------------------------------------------------------ the formulas
\* getDifficultyModifier, in units of 1/890
getDifficultyModifier(level) ==
    IF level < 309 THEN 890
    ELSE IF level >= 309 /\ level < 400 THEN 9 * level - 1811
    ELSE 1780

\* getLevelUpCostValue, in units of 1/(DifficultyDen*100*890)
getLevelUpCostValue(level, difficulty) ==
    BigMul(level * level * level + 1000, difficulty * getDifficultyModifier(level))

\* getZhenyuan: floor(3 * level^3 * (d/DifficultyDen) / 10127 * factor),
\* factor 1 or 1/2, by long division so that no product leaves 32 bits
getZhenyuan(level, difficulty, isMain) ==
    LET a == 3 * level * level * level
        m == 10127 * DifficultyDen * (IF isMain THEN 1 ELSE 2)
    IN  (a \div m) * difficulty + (((a % m) * difficulty) \div m)

\* getBreakthroughTime, in hours times 100 (baseTime * (100 - reductionPercent))
getBreakthroughTime(targetLevelEndingIn9, reductionPercent) ==
    LET baseTime == IF targetLevelEndingIn9 >= 99 /\ targetLevelEndingIn9 <= 289 THEN 2
                    ELSE IF targetLevelEndingIn9 >= 299 /\ targetLevelEndingIn9 <= 389 THEN 4
                    ELSE IF targetLevelEndingIn9 >= 399 THEN 8
                    ELSE 0
    IN  baseTime * (100 - reductionPercent)

RECURSIVE cultValueFrom(_, _, _)
cultValueFrom(l, last, difficulty) ==
    IF l >= last THEN BigZero
    ELSE BigAdd(getLevelUpCostValue(l, difficulty), cultValueFrom(l + 1, last, difficulty))

\* getStepCost, in time units: breakTime + cultValue / speed
getStepCost(startLevel, difficulty, speed, breakthroughReduction) ==
    LET breakTime == getBreakthroughTime(startLevel, breakthroughReduction)
        cultValue == cultValueFrom(startLevel, startLevel + 10, difficulty)
    IN  BigAdd(BigNorm(0, breakTime * DifficultyDen * 890 * speed), cultValue)

\* -------------------------------------------------------------- iteration
\* acc' = Op(acc, k) for k = lo, lo+1, ..., hi in this order (a for loop).
\* The range is halved so that the evaluation depth is logarithmic; the
\* test on `left` makes the left half finish before the right half starts.
RECURSIVE Fold(_, _, _, _)
Fold(Op(_, _), lo, hi, acc) ==
    IF lo > hi THEN acc
    ELSE IF lo = hi THEN Op(acc, lo)
    ELSE LET mid  == (lo + hi) \div 2
             left == Fold(Op, lo, mid, acc)
         IN  IF Len(<<left>>) = 1 THEN Fold(Op, mid + 1, hi, left) ELSE acc

\* -------------------------------------------------------------- optimize
MinLevel  == 99
MaxLevel  == 499
LevelStep == 10

Null == [null |-> TRUE]

\* 1. Flatten instances (handle 'count')
flatten(as) ==
    LET addArt(acc, idx) ==
            acc \o [k \in 1..as[idx].count |->
                      [id |-> as[idx].id, difficulty |-> as[idx].difficulty,
                       isMain |-> as[idx].isMain, count |-> as[idx].count,
                       uniqueId |-> <<as[idx].id, k - 1>>, originalIndex |-> idx - 1]]
    IN  Fold(addArt, 1, Len(as), <<>>)

\* 2. the options curve of one instance: levels 99, 109, ..., 499
optionsOf(inst, spd, red) ==
    LET base == [level |-> MinLevel,
                 z |-> getZhenyuan(MinLevel, inst.difficulty, inst.isMain),
                 t |-> BigZero]
        push(acc, n) ==
            LET l         == MinLevel + (n - 1) * LevelStep
                stepT     == getStepCost(l, inst.difficulty, spd, red)
                cumTime   == BigAdd(acc[Len(acc)].t, stepT)
                nextLevel == l + 10
            IN  Append(acc, [level |-> nextLevel,
                             z |-> getZhenyuan(nextLevel, inst.difficulty, inst.isMain),
                             t |-> cumTime])
    IN  Fold(push, 1, (MaxLevel - MinLevel + LevelStep - 1) \div LevelStep, <<base>>)

sumBaseZ(insts) ==
    LET add(acc, k) == acc + getZhenyuan(MinLevel, insts[k].difficulty, insts[k].isMain)
    IN  Fold(add, 1, Len(insts), 0)

initialFrontier(n) == <<[z |-> 0, t |-> BigZero, choices |-> [k \in 1..n |-> MinLevel]]>>

\* expand with a fault: the choice vector is not updated (newChoices[i] = opt.level lost)
expand_ChoicesNotUpdated(fr, options, idx) ==
    LET m       == Len(options)
        baseZ_i == options[1].z
    IN  [k \in 1..(Len(fr) * m) |->
            LET state == fr[((k - 1) \div m) + 1]
                opt   == options[((k - 1) % m) + 1]
            IN  [z |-> state.z + (opt.z - baseZ_i),
                 t |-> BigAdd(state.t, opt.t),
                 choices |-> state.choices]]

\* Expand: every frontier state with every option of instance idx (1-based)
expand(fr, options, idx) ==
    LET m       == Len(options)
        baseZ_i == options[1].z
    IN  [k \in 1..(Len(fr) * m) |->
            LET state == fr[((k - 1) \div m) + 1]
                opt   == options[((k - 1) % m) + 1]
                deltaZ == opt.z - baseZ_i
            IN  [z |-> state.z + deltaZ,
                 t |-> BigAdd(state.t, opt.t),
                 choices |-> [state.choices EXCEPT ![idx] = opt.level]]]

\* the comparator of nextFrontier.sort: a stays before b when b.z - a.z <= 0
zDescending(a, b) == b.z - a.z <= 0

mergeSorted(a, b) ==
    LET step(acc, k) ==
            IF acc.j > Len(b) \/ (acc.i <= Len(a) /\ zDescending(a[acc.i], b[acc.j]))
            THEN [i |-> acc.i + 1, j |-> acc.j, out |-> Append(acc.out, a[acc.i])]
            ELSE [i |-> acc.i, j |-> acc.j + 1, out |-> Append(acc.out, b[acc.j])]
    IN  Fold(step, 1, Len(a) + Len(b), [i |-> 1, j |-> 1, out |-> <<>>]).out

\* Array.prototype.sort is stable: a merge sort that prefers the left run on ties
RECURSIVE sortRange(_, _, _)
sortRange(s, lo, hi) ==
    IF lo > hi THEN <<>>
    ELSE IF lo = hi THEN <<s[lo]>>
    ELSE LET mid == (lo + hi) \div 2
             l   == sortRange(s, lo, mid)
             r   == sortRange(s, mid + 1, hi)
         IN  IF Len(l) + Len(r) >= 0 THEN mergeSorted(l, r) ELSE <<>>

sortByZ(s) == sortRange(s, 1, Len(s))

BUCKET_SIZE == 100
Infinity    == <<-1, -1>>

\* bucketOf with a fault: the division by BUCKET_SIZE lost
bucketOf_Undivided(z) == z

bucketOf(z) == z \div BUCKET_SIZE

\* belowMinTime with a fault: <= for <
belowMinTime_OrEqual(t, minTimeSeen) == minTimeSeen = Infinity \/ BigLeq(t, minTimeSeen)

\* state.t < minTimeSeen
belowMinTime(t, minTimeSeen) == minTimeSeen = Infinity \/ BigLess(t, minTimeSeen)

\* prune with a fault: minTimeSeen is not lowered when a state is kept
prune_MinTimeNotUpdated(sorted) ==
    LET visit(acc, k) ==
            LET state == sorted[k] IN
            IF belowMinTime(state.t, acc.minTimeSeen)
            THEN LET bucket == bucketOf(state.z) IN
                 IF bucket \notin acc.seenBuckets
                 THEN [pruned |-> Append(acc.pruned, state),
                       minTimeSeen |-> acc.minTimeSeen,
                       seenBuckets |-> acc.seenBuckets \cup {bucket}]
                 ELSE acc
            ELSE acc
    IN  Fold(visit, 1, Len(sorted),
             [pruned |-> <<>>, minTimeSeen |-> Infinity, seenBuckets |-> {}]).pruned

\* the loop of lines 185-206 over the sorted candidates
prune(sorted) ==
    LET visit(acc, k) ==
            LET state == sorted[k] IN
            IF belowMinTime(state.t, acc.minTimeSeen)
            THEN LET bucket == bucketOf(state.z) IN
                 IF bucket \notin acc.seenBuckets
                 THEN [pruned |-> Append(acc.pruned, state),
                       minTimeSeen |-> state.t,
                       seenBuckets |-> acc.seenBuckets \cup {bucket}]
                 ELSE acc
            ELSE acc
    IN  Fold(visit, 1, Len(sorted),
             [pruned |-> <<>>, minTimeSeen |-> Infinity, seenBuckets |-> {}]).pruned

\* findBestZhenyuan with a fault: the scan stops at the first state reaching the target
findBestZhenyuan_FirstMatch(fr, baseZ, targetValue) ==
    LET scan(acc, k) ==
            IF acc.stop THEN acc
            ELSE IF fr[k].z + baseZ >= targetValue
                 THEN [best |-> fr[k], stop |-> TRUE]
                 ELSE [best |-> acc.best, stop |-> TRUE]
        found == Fold(scan, 1, Len(fr), [best |-> Null, stop |-> FALSE]).best
    IN  IF found = Null /\ Len(fr) > 0 THEN fr[1] ELSE found

\* findBestTime with a fault: < for <= in the budget test
findBestTime_StrictBudget(fr, targetValue) ==
    LET scan(acc, k) ==
            IF acc.stop THEN acc
            ELSE IF BigLess(fr[k].t, targetValue)
                 THEN [best |-> fr[k], stop |-> TRUE]
                 ELSE acc
        found == Fold(scan, 1, Len(fr), [best |-> Null, stop |-> FALSE]).best
    IN  IF found = Null /\ Len(fr) > 0 THEN fr[Len(fr)] ELSE found

\* findBestTime with a fault: the best-effort fallback takes the first state
findBestTime_FallbackFirst(fr, targetValue) ==
    LET scan(acc, k) ==
            IF acc.stop THEN acc
            ELSE IF BigLeq(fr[k].t, targetValue)
                 THEN [best |-> fr[k], stop |-> TRUE]
                 ELSE acc
        found == Fold(scan, 1, Len(fr), [best |-> Null, stop |-> FALSE]).best
    IN  IF found = Null /\ Len(fr) > 0 THEN fr[1] ELSE found

\* 4. Find Best Result based on Target
findBestZhenyuan(fr, baseZ, targetValue) ==
    LET scan(acc, k) ==
            IF acc.stop THEN acc
            ELSE IF fr[k].z + baseZ >= targetValue
                 THEN [best |-> fr[k], stop |-> FALSE]
                 ELSE [best |-> acc.best, stop |-> TRUE]
        found == Fold(scan, 1, Len(fr), [best |-> Null, stop |-> FALSE]).best
    IN  IF found = Null /\ Len(fr) > 0 THEN fr[1] ELSE found

findBestTime(fr, targetValue) ==
    LET scan(acc, k) ==
            IF acc.stop THEN acc
            ELSE IF BigLeq(fr[k].t, targetValue)
                 THEN [best |-> fr[k], stop |-> TRUE]
                 ELSE acc
        found == Fold(scan, 1, Len(fr), [best |-> Null, stop |-> FALSE]).best
    IN  IF found = Null /\ Len(fr) > 0 THEN fr[Len(fr)] ELSE found

\* 5. Format Output
formatOutput(best, insts, baseZ) ==
    IF best = Null THEN Null
    ELSE [totalZhenyuan  |-> best.z + baseZ,
          totalTimeHours |-> best.t,
          arts |-> [u \in {insts[k].uniqueId : k \in 1..Len(insts)} |->
                      LET last == CHOOSE k \in 1..Len(insts) :
                                     /\ insts[k].uniqueId = u
                                     /\ \A j \in 1..Len(insts) :
                                            insts[j].uniqueId = u => j <= k
                      IN  best.choices[last]],
          path |-> <<>>]

\* ---------------------------------------------------------- state machine
VARIABLES
    arts,             \* argument: the list of arts
    speed,            \* settings.speed
    reduction,        \* settings.reduction (percent)
    targetType,       \* settings.targetType, first read at line 214
    targetValue,      \* settings.targetValue, first read at line 233 / 250
    pc,               \* position in optimize
    instances,        \* the flattened instances
    instanceOptions,  \* one options curve per instance
    baseTotalZ,       \* the value of all instances at level 99
    frontier,         \* the running frontier
    nextFrontier,     \* the sorted candidates of the last merge step
    i,                \* number of instances merged so far (the loop index)
    bestState,        \* the state picked by the target selection
    result            \* the value returned

vars == <<arts, speed, reduction, targetType, targetValue, pc, instances,
          instanceOptions, baseTotalZ, frontier, nextFrontier, i, bestState, result>>

Art == [id : {"a"}, difficulty : Difficulties, isMain : BOOLEAN, count : 0..MaxCount]

\* one art with any replica count, or two arts with one replica each
ArtsInputs ==
    {<<a>> : a \in Art}
    \cup {<<a, [b EXCEPT !.id = "b"]>> : a \in {x \in Art : x.count = 1},
                                         b \in {x \in Art : x.count = 1}}

Init ==
    /\ arts \in ArtsInputs
    /\ speed \in 1..MaxSpeed
    /\ reduction \in Reductions
    /\ targetType = "unread"
    /\ targetValue = Null
    /\ pc = "flatten"
    /\ instances = <<>>
    /\ instanceOptions = <<>>
    /\ baseTotalZ = 0
    /\ frontier = <<>>
    /\ nextFrontier = <<>>
    /\ i = 0
    /\ bestState = Null
    /\ result = Null

\* lines 82-91: no instance at all returns the zero result
ReturnEmpty ==
    /\ pc = "flatten"
    /\ Len(flatten(arts)) = 0
    /\ instances' = flatten(arts)
    /\ result' = [totalZhenyuan |-> 0, totalTimeHours |-> BigZero,
                  arts |-> <<>>, path |-> <<>>]
    /\ pc' = "done"
    /\ UNCHANGED <<arts, speed, reduction, targetType, targetValue, instanceOptions,
                   baseTotalZ, frontier, nextFrontier, i, bestState>>

\* lines 82-138: flatten, precompute the curves, the baseline and the first frontier
Precompute ==
    /\ pc = "flatten"
    /\ Len(flatten(arts)) # 0
    /\ instances' = flatten(arts)
    /\ instanceOptions' = [k \in 1..Len(instances') |->
                              optionsOf(instances'[k], speed, reduction)]
    /\ baseTotalZ' = sumBaseZ(instances')
    /\ frontier' = initialFrontier(Len(instances'))
    /\ i' = 0
    /\ pc' = "merge"
    /\ UNCHANGED <<arts, speed, reduction, targetType, targetValue, nextFrontier,
                   bestState, result>>

\* lines 140-209: one iteration of the fold (expand, sort, prune)
MergeStep ==
    /\ pc = "merge"
    /\ i < Len(instances)
    /\ nextFrontier' = sortByZ(expand(frontier, instanceOptions[i + 1], i + 1))
    /\ frontier' = prune(nextFrontier')
    /\ i' = i + 1
    /\ UNCHANGED <<arts, speed, reduction, targetType, targetValue, pc, instances,
                   instanceOptions, baseTotalZ, bestState, result>>

BigPred(a) == IF a[2] > 0 THEN <<a[1], a[2] - 1>> ELSE <<a[1] - 1, BigBase - 1>>

\* the frontier states the target values are taken around
TargetIdx(fr) == {k \in 1..Len(fr) : k <= MaxTargets \/ k > Len(fr) - MaxTargets}

\* resource targets: the baseline itself, and the values of those states and
\* one more (a target just met and a target just missed)
ZhenyuanTargets(fr, baseZ) ==
    {baseZ} \cup {fr[k].z + baseZ + e : k \in TargetIdx(fr), e \in {0, 1}}

\* time budgets: none, the cost of the first instance's level-109 option, and
\* the times of those states and one unit less
TimeTargets(fr, opts) ==
    {BigZero, opts[1][2].t}
    \cup {fr[k].t : k \in TargetIdx(fr)}
    \cup {BigPred(fr[k].t) : k \in {j \in TargetIdx(fr) : fr[j].t # BigZero}}

\* lines 214-240
FindBestZhenyuan ==
    /\ pc = "merge"
    /\ i = Len(instances)
    /\ \E tv \in ZhenyuanTargets(frontier, baseTotalZ) :
          /\ targetType' = "zhenyuan"
          /\ targetValue' = tv
          /\ bestState' = findBestZhenyuan(frontier, baseTotalZ, tv)
    /\ pc' = "format"
    /\ UNCHANGED <<arts, speed, reduction, instances, instanceOptions, baseTotalZ,
                   frontier, nextFrontier, i, result>>

\* lines 242-257
FindBestTime ==
    /\ pc = "merge"
    /\ i = Len(instances)
    /\ \E tv \in TimeTargets(frontier, instanceOptions) :
          /\ targetType' = "time"
          /\ targetValue' = tv
          /\ bestState' = findBestTime(frontier, tv)
    /\ pc' = "format"
    /\ UNCHANGED <<arts, speed, reduction, instances, instanceOptions, baseTotalZ,
                   frontier, nextFrontier, i, result>>

\* lines 259-272
FormatOutput ==
    /\ pc = "format"
    /\ result' = formatOutput(bestState, instances, baseTotalZ)
    /\ pc' = "done"
    /\ UNCHANGED <<arts, speed, reduction, targetType, targetValue, instances,
                   instanceOptions, baseTotalZ, frontier, nextFrontier, i, bestState>>

Next ==
    \/ ReturnEmpty
    \/ Precompute
    \/ MergeStep
    \/ FindBestZhenyuan
    \/ FindBestTime
    \/ FormatOutput

Spec == Init /\ [][Next]_vars

\* ------------------------------------------------------------- properties
\* the frontier as it stands after a merge step (a prefix of i instances)
AfterMerge == pc = "merge" /\ i >= 1

\* optimize has returned a result picked from the final frontier
Returned == pc = "done" /\ Len(instances) > 0

IsFrontierState(st) == \E k \in 1..Len(frontier) : frontier[k] = st

\* the returned record carries the picked state
ReturnsState(st) ==
    /\ result # Null
    /\ result.totalZhenyuan = st.z + baseTotalZ
    /\ result.totalTimeHours = st.t
    /\ \A k \in 1..Len(instances) : result.arts[instances[k].uniqueId] = st.choices[k]

\* C1: in time-budget mode optimize returns the frontier state of highest
\* value among those whose time is within the budget, and the frontier state
\* of lowest time when none is within the budget.
C1_TimeSelection ==
    (Returned /\ targetType = "time") =>
        LET feasible == {k \in 1..Len(frontier) : BigLeq(frontier[k].t, targetValue)}
        IN  /\ IsFrontierState(bestState)
            /\ ReturnsState(bestState)
            /\ feasible # {} =>
                  /\ BigLeq(bestState.t, targetValue)
                  /\ \A k \in feasible : frontier[k].z <= bestState.z
            /\ feasible = {} =>
                  \A k \in 1..Len(frontier) : BigLeq(bestState.t, frontier[k].t)

\* C1 witness: a time-budget run in which some frontier states are within
\* the budget and some are not
C1_Witness ==
    /\ Returned /\ targetType = "time"
    /\ \E k \in 1..Len(frontier) : BigLeq(frontier[k].t, targetValue)
    /\ \E k \in 1..Len(frontier) : BigLess(targetValue, frontier[k].t)
    /\ bestState.z > 0

\* C2: in resource-floor mode optimize returns the frontier state of lowest
\* time among those whose value plus the baseline reaches the target, and
\* the frontier state of highest value when none reaches it.
C2_ZhenyuanSelection ==
    (Returned /\ targetType = "zhenyuan") =>
        LET reaching == {k \in 1..Len(frontier) :
                            frontier[k].z + baseTotalZ >= targetValue}
        IN  /\ IsFrontierState(bestState)
            /\ ReturnsState(bestState)
            /\ reaching # {} =>
                  /\ bestState.z + baseTotalZ >= targetValue
                  /\ \A k \in reaching : BigLeq(bestState.t, frontier[k].t)
            /\ reaching = {} =>
                  \A k \in 1..Len(frontier) : frontier[k].z <= bestState.z

\* C2 witness: a resource-floor run in which some frontier states reach the
\* target and some do not
C2_Witness ==
    /\ Returned /\ targetType = "zhenyuan"
    /\ \E k \in 1..Len(frontier) : frontier[k].z + baseTotalZ >= targetValue
    /\ \E k \in 1..Len(frontier) : frontier[k].z + baseTotalZ < targetValue
    /\ bestState # frontier[1]

\* a dominates b: at least the value in at most the time
Dominates(a, b) == a.z >= b.z /\ BigLeq(a.t, b.t)

\* C3: after every merge step no frontier state dominates another one, and
\* the values of the frontier are pairwise distinct.
C3_NoDominance ==
    AfterMerge =>
        \A a \in 1..Len(frontier) : \A b \in (a + 1)..Len(frontier) :
            /\ ~Dominates(frontier[a], frontier[b])
            /\ ~Dominates(frontier[b], frontier[a])
            /\ frontier[a].z # frontier[b].z

\* C3 witness: a frontier of several states after the second instance, cut
\* down from a larger set of candidates
C3_Witness ==
    /\ AfterMerge /\ i = 2
    /\ Len(frontier) > 2
    /\ Len(nextFrontier) > Len(frontier)

\* C4 as stated: value strictly descending and time strictly increasing
\* along the frontier.
C4_TimeIncreasing ==
    AfterMerge =>
        \A k \in 1..(Len(frontier) - 1) :
            /\ frontier[k].z > frontier[k + 1].z
            /\ BigLess(frontier[k].t, frontier[k + 1].t)

\* C4 amended: after every merge step the frontier is ordered by value
\* strictly descending and its time is strictly decreasing along that order
\* (adjacent pairs; the order is transitive).
C4_TimeDecreasing ==
    AfterMerge =>
        \A k \in 1..(Len(frontier) - 1) :
            /\ frontier[k].z > frontier[k + 1].z
            /\ BigLess(frontier[k + 1].t, frontier[k].t)

\* C4 witness: a frontier of several states after a merge step
C4_Witness == AfterMerge /\ Len(frontier) > 2

\* the largest value delta the first n instances can reach (all at level 499)
MaxDelta(n) ==
    LET add(acc, k) ==
            acc + getZhenyuan(MaxLevel, instances[k].difficulty, instances[k].isMain)
                - getZhenyuan(MinLevel, instances[k].difficulty, instances[k].isMain)
    IN  Fold(add, 1, n, 0)

\* C5: after every merge step the frontier holds at most one state per
\* bucket of 100 and at most floor(V/100) + 1 states, V the largest value
\* delta the processed instances can reach.
C5_OnePerBucket ==
    AfterMerge =>
        /\ \A a \in 1..Len(frontier) : \A b \in (a + 1)..Len(frontier) :
              (frontier[a].z \div 100) # (frontier[b].z \div 100)
        /\ Len(frontier) <= (MaxDelta(i) \div 100) + 1

\* C5 witness: a merge step that met two candidates of different value in
\* one bucket
C5_Witness ==
    /\ AfterMerge
    /\ \E a \in 1..(Len(nextFrontier) - 1) :
          /\ nextFrontier[a].z # nextFrontier[a + 1].z
          /\ (nextFrontier[a].z \div 100) = (nextFrontier[a + 1].z \div 100)

\* the final frontier is complete and no target has been read yet
FoldDone == pc = "merge" /\ i = Len(instances)

timeRun(budget) ==
    formatOutput(findBestTime(frontier, budget), instances, baseTotalZ)

zhenyuanRun(target) ==
    formatOutput(findBestZhenyuan(frontier, baseTotalZ, target), instances, baseTotalZ)

\* C6: for fixed arts, speed and reduction, a larger time budget never
\* returns a smaller totalZhenyuan and a smaller resource target never
\* returns a larger totalTimeHours, best-effort results included.
C6_Monotone ==
    FoldDone =>
        /\ \A b1 \in TimeTargets(frontier, instanceOptions) :
           \A b2 \in TimeTargets(frontier, instanceOptions) :
              BigLeq(b1, b2) =>
                  timeRun(b2).totalZhenyuan >= timeRun(b1).totalZhenyuan
        /\ \A t1 \in ZhenyuanTargets(frontier, baseTotalZ) :
           \A t2 \in ZhenyuanTargets(frontier, baseTotalZ) :
              t1 >= t2 =>
                  BigLeq(zhenyuanRun(t2).totalTimeHours, zhenyuanRun(t1).totalTimeHours)

\* C6 witness: a final frontier on which one budget is met by no state (a
\* best-effort result) and a larger one is met, with different results
C6_Witness ==
    /\ FoldDone
    /\ \E b1 \in TimeTargets(frontier, instanceOptions) :
       \E b2 \in TimeTargets(frontier, instanceOptions) :
          /\ BigLess(b1, b2)
          /\ \A k \in 1..Len(frontier) : BigLess(b1, frontier[k].t)
          /\ timeRun(b2).totalZhenyuan > timeRun(b1).totalZhenyuan

\* C7: two identical instances (one art, replica count 2) in resource-floor
\* mode with target 2 x value(99) return time 0 and level 99 for both.
C7_BaselineTarget ==
    ( /\ Returned /\ targetType = "zhenyuan"
      /\ Len(arts) = 1 /\ arts[1].count = 2
      /\ targetValue = 2 * getZhenyuan(99, arts[1].difficulty, arts[1].isMain) )
    => /\ result.totalTimeHours = BigZero
       /\ \A k \in 1..2 : result.arts[instances[k].uniqueId] = 99

\* C8: one primary instance, speed 1, reduction 0, time budget equal to the
\* cost of the level-109 option: level 109, that cost, value(109).
C8_SingleStep ==
    ( /\ Returned /\ targetType = "time"
      /\ Len(arts) = 1 /\ arts[1].count = 1 /\ arts[1].isMain
      /\ speed = 1 /\ reduction = 0
      /\ targetValue = getStepCost(99, arts[1].difficulty, 1, 0) )
    => /\ result.arts[instances[1].uniqueId] = 109
       /\ result.totalTimeHours = getStepCost(99, arts[1].difficulty, 1, 0)
       /\ result.totalZhenyuan = getZhenyuan(109, arts[1].difficulty, TRUE)

\* the option of instance j at a level of the grid
OptionAt(j, level) == instanceOptions[j][((level - MinLevel) \div LevelStep) + 1]

\* value delta and time of a choice vector over the first n instances
ChoiceDelta(choices, n) ==
    LET add(acc, j) ==
            acc + getZhenyuan(choices[j], instances[j].difficulty, instances[j].isMain)
                - getZhenyuan(99, instances[j].difficulty, instances[j].isMain)
    IN  Fold(add, 1, n, 0)

ChoiceTime(choices, n) ==
    LET add(acc, j) == BigAdd(acc, OptionAt(j, choices[j]).t)
    IN  Fold(add, 1, n, BigZero)

ChoiceValue(choices, n) ==
    LET add(acc, j) ==
            acc + getZhenyuan(choices[j], instances[j].difficulty, instances[j].isMain)
    IN  Fold(add, 1, n, 0)

\* C9: every frontier state agrees with its choice vector after every merge
\* step (value delta, time, level 99 for the instances not yet processed),
\* and the returned totals are the sums over the returned levels.
C9_ChoicesConsistent ==
    /\ AfterMerge =>
          \A k \in 1..Len(frontier) :
              /\ Len(frontier[k].choices) = Len(instances)
              /\ frontier[k].z = ChoiceDelta(frontier[k].choices, i)
              /\ frontier[k].t = ChoiceTime(frontier[k].choices, i)
              /\ \A j \in (i + 1)..Len(instances) : frontier[k].choices[j] = 99
    /\ Returned =>
          LET levels == [j \in 1..Len(instances) |-> result.arts[instances[j].uniqueId]]
          IN  /\ result.totalZhenyuan = ChoiceValue(levels, Len(instances))
              /\ result.totalTimeHours = ChoiceTime(levels, Len(instances))

\* C9 witness: a result over two instances that raises both above level 99
C9_Witness ==
    /\ Returned /\ Len(instances) = 2
    /\ \A j \in 1..2 : result.arts[instances[j].uniqueId] > 99

\* C10: every state a merge step keeps is Pareto-optimal among all the
\* candidates of that step.
C10_KeptParetoOptimal ==
    AfterMerge =>
        \A k \in 1..Len(frontier) : \A c \in 1..Len(nextFrontier) :
            ~ ( /\ Dominates(nextFrontier[c], frontier[k])
                /\ \/ nextFrontier[c].z > frontier[k].z
                   \/ BigLess(nextFrontier[c].t, frontier[k].t) )

====
